---- MODULE Spec2Model ----
(***************************************************************************)
(* Game of Life on an unbounded plane (src/script.js): the chunked sparse  *)
(* cell store ChunkManager and the engine GameOfLife that advances it.     *)
(***************************************************************************)
EXTENDS Integers, Sequences, FiniteSets, TLC

VARIABLES
    grid,          \* this.grid.chunks: chunk key -> cell array (Uint8Array)
    bornRules,     \* this.bornRules
    surviveRules,  \* this.surviveRules
    isRunning,     \* this.isRunning
    animationId,   \* this.animationId (0 models null)
    frames,        \* animation-frame callbacks requested and not yet run or cancelled
    generation,    \* this.generation
    population,    \* this.population
    isDragging,    \* this.isDragging
    isDrawing,     \* this.isDrawing
    drawState,     \* this.drawState
    pc,            \* position inside computeNextGen ("idle" outside it)
    nextGrid,      \* computeNextGen's local nextGrid.chunks
    todo,          \* keys of computeNextGen's chunksToCheck not yet processed
    newPop,        \* computeNextGen's local newPop
    lastOp,        \* the operation that produced this state, with its arguments
    ret,           \* value the last operation returned (0 when it returns none)
    prev,          \* engine state at the start of the last advance or clear
    runBase,       \* generation when the current run of advances began
    runLen,        \* number of advances in the current run
    runStart,      \* this.grid.chunks when the current run of advances began
    stopped,       \* pause() or clear() has returned and start() was not called since
    edits,         \* number of cell edits made through the input handlers
    ruleChanges    \* number of rule changes made

vars == <<grid, bornRules, surviveRules, isRunning, animationId, frames,
          generation, population, isDragging, isDrawing, drawState,
          pc, nextGrid, todo, newPop, lastOp, ret, prev, runBase, runLen, runStart,
          stopped, edits, ruleChanges>>

(***************************************************************************)
(* Bounds of the model.                                                    *)
(***************************************************************************)
\* Side of a chunk. The engine constructs its grids with 32 (script.js:59);
\* the model keeps the arithmetic and scales the side down.
chunkSize == 2
\* computeNextGen is not called once generation has reached this bound.
MaxGen == 2
\* Number of cell writes the input handlers make.
MaxEdits == 1
\* Number of direct setCell calls.
MaxSets == 2
\* Number of rule changes.
MaxRuleChanges == 1
\* computeNextGen is not called once generation has reached this bound where
\* the known patterns are followed.
MaxTicks == 4

\* Grid cells of the visible screen, which randomize() fills: three columns
\* and rows that end at the origin, so that they lie in four chunks.
ScreenCells == ((0 - 2) .. 0) \X ((0 - 2) .. 0)
\* The sets of cells that randomize() makes alive, out of the subsets of the
\* screen: none, one cell, two and three cells across chunk borders, a block
\* in four chunks, a row, the ring around a cell, the whole screen.
Seeds ==
    { {},
      {<<0, 0>>},
      {<<0 - 1, 0>>, <<0, 0>>},
      {<<0 - 1, 0>>, <<0, 0>>, <<0, 0 - 1>>},
      {<<0 - 1, 0 - 1>>, <<0, 0 - 1>>, <<0 - 1, 0>>, <<0, 0>>},
      {<<0 - 2, 0>>, <<0 - 1, 0>>, <<0, 0>>},
      ScreenCells \ {<<0 - 1, 0 - 1>>},
      ScreenCells }
\* Fewer of them, for the specifications that follow the handlers.
FewSeeds == { {}, {<<0, 0>>}, {<<0 - 1, 0>>, <<0, 0>>} }
\* No live cell (density 0), for the specification of the direct store calls.
NoSeeds == { {} }
\* For the specification that follows computeNextGen step by step: none,
\* three cells of one chunk, three cells of two chunks around a corner and
\* in a row.
StepSeeds ==
    { {},
      {<<0, 0>>, <<1, 0>>, <<0, 1>>},
      {<<0 - 1, 0>>, <<0, 0>>, <<0, 1>>},
      {<<0 - 1, 0>>, <<0, 0>>, <<1, 0>>} }
\* Coordinates handed to setCell and getCell directly: both signs on both
\* axes, the chunk borders at 0 and at chunkSize.
GridCoords == ((0 - 1) .. 2) \X ((0 - 1) .. 0)
\* Cell states handed to setCell directly: dead, alive, other nonzero bytes.
States == {0, 1, 2, 255}
\* Grid cells under the pointer: two cells on both sides of a chunk border.
PointerCells == {<<0 - 1, 0>>, <<0, 0>>}
\* The set of cells that randomize() makes alive where other states are
\* then written over them: three cells around a corner.
ValueSeeds == { {<<0 - 1, 0>>, <<0, 0>>, <<0, 0 - 1>>} }

\* The known patterns with their corner or centre at (x, y): the 5-cell
\* glider that travels by (+1, +1), the segment of 3 cells in a row and in a
\* column, the 2 x 2 block.
glider(x, y) ==
    { <<x + 1, y>>, <<x + 2, y + 1>>, <<x, y + 2>>, <<x + 1, y + 2>>,
      <<x + 2, y + 2>> }
row(x, y) == { <<x - 1, y>>, <<x, y>>, <<x + 1, y>> }
column(x, y) == { <<x, y - 1>>, <<x, y>>, <<x, y + 1>> }
block(x, y) == { <<x, y>>, <<x + 1, y>>, <<x, y + 1>>, <<x + 1, y + 1>> }

\* Where the patterns are put: on both sides of the origin, at every position
\* relative to the chunk borders.
LifeOrigins == ((0 - 3) .. 1) \X ((0 - 3) .. 1)
\* The grids that hold one pattern and nothing else.
LifeSeeds ==
    { glider(o[1], o[2]) : o \in LifeOrigins }
        \cup { row(o[1], o[2]) : o \in LifeOrigins }
        \cup { block(o[1], o[2]) : o \in LifeOrigins }

\* The plane as far as the properties look. The cells written from outside
\* lie in the chunks -1 and 0 and a generation stores at most one chunk more
\* on every side, so every stored cell lies in it.
PlaneCoords == (0 - (MaxGen + 1) * chunkSize) .. ((MaxGen + 1) * chunkSize - 1)
Plane == PlaneCoords \X PlaneCoords

(***************************************************************************)
(* Numbers and strings of JavaScript.                                      *)
(***************************************************************************)
\* a % b of JavaScript: the remainder has the sign of the dividend.
jsRem(a, b) == IF a >= 0 THEN a % b ELSE 0 - ((0 - a) % b)

\* Math.floor(a / b) for b > 0.
floorDiv(a, b) == a \div b

\* A value stored into a Uint8Array element is taken modulo 2^8.
toUint8(v) == v % 256

DigitChar == <<"0", "1", "2", "3", "4", "5", "6", "7", "8", "9">>

RECURSIVE digits(_)
digits(n) ==
    IF n < 10 THEN <<DigitChar[n + 1]>>
    ELSE digits(n \div 10) \o <<DigitChar[(n % 10) + 1]>>

\* `${n}` for an integer n: a sequence of characters.
numberToString(n) == IF n < 0 THEN <<"-">> \o digits(0 - n) ELSE digits(n)

digitValue(c) == CHOOSE d \in 0 .. 9 : DigitChar[d + 1] = c

RECURSIVE digitsValue(_, _)
digitsValue(s, acc) ==
    IF s = <<>> THEN acc ELSE digitsValue(Tail(s), acc * 10 + digitValue(Head(s)))

\* Number(s) for the decimal text of an integer.
stringToNumber(s) ==
    IF s # <<>> /\ Head(s) = "-" THEN 0 - digitsValue(Tail(s), 0)
    ELSE digitsValue(s, 0)

(***************************************************************************)
(* ChunkManager.                                                           *)
(***************************************************************************)
\* getChunkKey(cx, cy): the text "cx,cy".
getChunkKey(cx, cy) == numberToString(cx) \o <<",">> \o numberToString(cy)

\* key.split(',').map(Number)
splitKey(key) ==
    LET comma == CHOOSE i \in 1 .. Len(key) : key[i] = ","
    IN  <<stringToNumber(SubSeq(key, 1, comma - 1)),
          stringToNumber(SubSeq(key, comma + 1, Len(key)))>>

\* new ChunkManager(chunkSize).chunks: an empty Map.
emptyChunks == <<>>

\* new Uint8Array(chunkSize * chunkSize): all zero.
newChunk == [i \in 0 .. (chunkSize * chunkSize - 1) |-> 0]

\* Mutant of chunkCoord: the quotient truncated toward zero, (v / chunkSize) | 0.
chunkCoordTruncating(v) ==
    IF v >= 0 THEN v \div chunkSize ELSE 0 - ((0 - v) \div chunkSize)

\* Math.floor(v / this.chunkSize)
chunkCoord(v) == floorDiv(v, chunkSize)

\* ((v % this.chunkSize) + this.chunkSize) % this.chunkSize
localOffset(v) == jsRem(jsRem(v, chunkSize) + chunkSize, chunkSize)

\* getOrCreateChunk(cx, cy): the chunk map afterwards.
getOrCreateChunk(chunks, cx, cy) ==
    LET key == getChunkKey(cx, cy)
    IN  IF key \in DOMAIN chunks THEN chunks
        ELSE [k \in (DOMAIN chunks) \cup {key} |->
                 IF k = key THEN newChunk ELSE chunks[k]]

\* Mutant of setCell: the chunk coordinates are truncated toward zero,
\* (x / chunkSize) | 0, where getCell floors them.
setCellTruncating(chunks, x, y, state) ==
    LET cx == IF x >= 0 THEN x \div chunkSize ELSE 0 - ((0 - x) \div chunkSize)
        cy == IF y >= 0 THEN y \div chunkSize ELSE 0 - ((0 - y) \div chunkSize)
        lx == localOffset(x)
        ly == localOffset(y)
        created == getOrCreateChunk(chunks, cx, cy)
        key == getChunkKey(cx, cy)
    IN  [created EXCEPT ![key][ly * chunkSize + lx] = toUint8(state)]

\* setCell(x, y, state): the chunk map afterwards.
setCell(chunks, x, y, state) ==
    LET cx == chunkCoord(x)
        cy == chunkCoord(y)
        lx == localOffset(x)
        ly == localOffset(y)
        created == getOrCreateChunk(chunks, cx, cy)
        key == getChunkKey(cx, cy)
    IN  [created EXCEPT ![key][ly * chunkSize + lx] = toUint8(state)]

\* Mutant of getCell: the offsets are x % chunkSize and y % chunkSize as
\* they come, negative for negative coordinates; an index outside the array
\* reads as undefined, which counts as dead.
getCellRawOffset(chunks, x, y) ==
    LET key == getChunkKey(chunkCoord(x), chunkCoord(y))
        index == jsRem(y, chunkSize) * chunkSize + jsRem(x, chunkSize)
    IN  IF key \notin DOMAIN chunks THEN 0
        ELSE IF index \in DOMAIN chunks[key] THEN chunks[key][index]
        ELSE 0

\* getCell(x, y): the value returned.
getCell(chunks, x, y) ==
    LET cx == chunkCoord(x)
        cy == chunkCoord(y)
        key == getChunkKey(cx, cy)
    IN  IF key \notin DOMAIN chunks THEN 0
        ELSE chunks[key][localOffset(y) * chunkSize + localOffset(x)]

\* Mutant of getCellChunks: the lookup is getOrCreateChunk.
getCellChunksCreating(chunks, x, y) ==
    getOrCreateChunk(chunks, chunkCoord(x), chunkCoord(y))

\* getCell(x, y): the chunk map afterwards. The lookup is Map.get, which
\* inserts nothing.
getCellChunks(chunks, x, y) == chunks

\* Mutant of clearChunks: clear() empties keyCache and leaves chunks.
clearChunksKeyCache(chunks) == chunks

\* ChunkManager.clear(): the chunk map afterwards.
clearChunks(chunks) == emptyChunks

(***************************************************************************)
(* GameOfLife.computeNextGen.                                              *)
(***************************************************************************)
\* The 3 x 3 block of offsets of the loops "for dy, for dx in -1..1".
Block == ((0 - 1) .. 1) \X ((0 - 1) .. 1)

\* The 8 offsets left after "if (dx === 0 && dy === 0) continue".
Offsets == Block \ {<<0, 0>>}

\* Mutant of chunksToCheck: the stored chunks without their neighbours.
chunksToCheckStored(chunks) == DOMAIN chunks

\* chunksToCheck: for every stored chunk, its key and its 8 neighbours' keys,
\* collected in a Set.
chunksToCheck(chunks) ==
    UNION { LET c == splitKey(key)
            IN  { getChunkKey(c[1] + d[1], c[2] + d[2]) : d \in Block }
          : key \in DOMAIN chunks }

\* Mutant of cellsOfChunk: the loop over lx stops one short of the last
\* column.
cellsOfChunkShort(key) ==
    LET c == splitKey(key)
    IN  { <<c[1] * chunkSize + lx, c[2] * chunkSize + ly>> :
            lx \in 0 .. (chunkSize - 2), ly \in 0 .. (chunkSize - 1) }

\* The cells (gx, gy) of the chunk of a key: chunkBase + (lx, ly).
cellsOfChunk(key) ==
    LET c == splitKey(key)
    IN  { <<c[1] * chunkSize + lx, c[2] * chunkSize + ly>> :
            lx \in 0 .. (chunkSize - 1), ly \in 0 .. (chunkSize - 1) }

\* Mutant of neighbors: the cell itself is counted ("continue" left out).
neighborsWithSelf(chunks, gx, gy) ==
    Cardinality({ d \in Block : getCell(chunks, gx + d[1], gy + d[2]) # 0 })

\* neighbors: the offsets whose cell reads as truthy.
neighbors(chunks, gx, gy) ==
    Cardinality({ d \in Offsets : getCell(chunks, gx + d[1], gy + d[2]) # 0 })

\* Mutant of nextState: the two sets are taken for each other.
nextStateSwapped(chunks, born, survive, gx, gy) ==
    LET n == neighbors(chunks, gx, gy)
        state == getCell(chunks, gx, gy)
    IN  IF state = 1
        THEN (IF n \in born THEN 1 ELSE 0)
        ELSE (IF n \in survive THEN 1 ELSE 0)

\* nextState of the cell (gx, gy).
nextState(chunks, born, survive, gx, gy) ==
    LET n == neighbors(chunks, gx, gy)
        state == getCell(chunks, gx, gy)
    IN  IF state = 1
        THEN (IF n \in survive THEN 1 ELSE 0)
        ELSE (IF n \in born THEN 1 ELSE 0)

\* The cells of a chunk for which "if (nextState)" holds.
liveNext(chunks, born, survive, key) ==
    { c \in cellsOfChunk(key) : nextState(chunks, born, survive, c[1], c[2]) # 0 }

\* nextGrid.setCell(gx, gy, 1) for each cell of a set.
RECURSIVE setCells(_, _)
setCells(chunks, cells) ==
    IF cells = {} THEN chunks
    ELSE LET c == CHOOSE e \in cells : TRUE
         IN  setCells(setCell(chunks, c[1], c[2], 1), cells \ {c})


\* The coordinates computeNextGen reads for the cells of one chunk: each cell
\* and its 8 neighbours.
readsOfChunk(key) ==
    { <<c[1] + d[1], c[2] + d[2]>> : c \in cellsOfChunk(key), d \in Block }

\* The source chunk map after getCell has been called on each of a set of
\* coordinates.
RECURSIVE afterReads(_, _)
afterReads(chunks, coords) ==
    IF coords = {} THEN chunks
    ELSE LET c == CHOOSE e \in coords : TRUE
         IN  afterReads(getCellChunks(chunks, c[1], c[2]), coords \ {c})

\* Mutant of processChunk: nextGrid.setCell(gx, gy, nextState) for every
\* cell evaluated, dead or alive, which creates the chunk of every key.
processChunkWriteAll(src, born, survive, key, dst, pop) ==
    LET live == liveNext(src, born, survive, key)
        c == splitKey(key)
    IN  [chunks |-> setCells(getOrCreateChunk(dst, c[1], c[2]), live),
         pop |-> pop + Cardinality(live)]

\* Mutant of processChunk: a cell is read from nextGrid where nextGrid
\* already holds its chunk, and from the source grid elsewhere.
processChunkMixed(src, born, survive, key, dst, pop) ==
    LET mixed == [k \in (DOMAIN src) \cup (DOMAIN dst) |->
                     IF k \in DOMAIN dst THEN dst[k] ELSE src[k]]
        live == liveNext(mixed, born, survive, key)
    IN  [chunks |-> setCells(dst, live), pop |-> pop + Cardinality(live)]

\* Mutant of processChunk: newPop++ for every cell evaluated, outside "if
\* (nextState)".
processChunkCountAll(src, born, survive, key, dst, pop) ==
    [chunks |-> setCells(dst, liveNext(src, born, survive, key)),
     pop |-> pop + Cardinality(cellsOfChunk(key))]

\* One iteration of "for (const key of chunksToCheck)": nextGrid (chunks)
\* and newPop (pop) afterwards.
processChunk(src, born, survive, key, dst, pop) ==
    LET live == liveNext(src, born, survive, key)
    IN  [chunks |-> setCells(dst, live), pop |-> pop + Cardinality(live)]

\* The whole loop over a set of keys.
RECURSIVE processChunks(_, _, _, _, _, _)
processChunks(src, born, survive, keys, dst, pop) ==
    IF keys = {} THEN [chunks |-> dst, pop |-> pop]
    ELSE LET key == CHOOSE k \in keys : TRUE
             r == processChunk(src, born, survive, key, dst, pop)
         IN  \* newPop never shrinks; the test settles r before the next key.
             IF r.pop >= pop
             THEN processChunks(src, born, survive, keys \ {key}, r.chunks, r.pop)
             ELSE r

\* computeNextGen's nextGrid and newPop when its loops are done.
computeNextGen(chunks, born, survive) ==
    processChunks(chunks, born, survive, chunksToCheck(chunks), emptyChunks, 0)

\* Mutant of commit: the generation is counted only when something lives.
commitIfAlive(chunks, pop, gen) ==
    [grid |-> chunks, generation |-> (IF pop > 0 THEN gen + 1 ELSE gen),
     population |-> pop]

\* The last three statements of computeNextGen: the engine's grid, generation
\* and population afterwards.
commit(chunks, pop, gen) ==
    [grid |-> chunks, generation |-> gen + 1, population |-> pop]

(***************************************************************************)
(* Inputs of the handlers.                                                 *)
(***************************************************************************)
\* The rule presets RULES.
RULES ==
    { [b |-> {3}, s |-> {2, 3}],
      [b |-> {3, 6}, s |-> {2, 3}],
      [b |-> {2}, s |-> {}],
      [b |-> {3, 6, 7, 8}, s |-> {3, 4, 6, 7, 8}],
      [b |-> {3}, s |-> 0 .. 8],
      [b |-> {3, 6, 8}, s |-> {2, 4, 5}],
      [b |-> {4, 6, 7, 8}, s |-> {3, 5, 6, 7, 8}],
      [b |-> {3, 5, 6, 7, 8}, s |-> {5, 6, 7, 8}] }

\* Rules handed to applyRule: the presets, and rules over 0..8 that are no
\* preset (applyRule takes any rule object).
RuleInputs == RULES \cup { [b |-> {0}, s |-> {}], [b |-> {1}, s |-> {0, 1}] }

\* Patterns handed to loadPattern (rows of 0/1): blinker, block.
Patterns == { << <<1, 1, 1>> >>, << <<1, 1>>, <<1, 1>> >> }

\* Rules handed to applyRule where the handlers are followed: Seeds.
FewRules == { [b |-> {2}, s |-> {}] }

\* Mouse buttons: 0 draws (a touch has no button), 1 and 2 pan.
Buttons == {0, 1, 2}

(***************************************************************************)
(* History kept for the properties.                                        *)
(***************************************************************************)
NoPrev == [valid |-> FALSE, grid |-> emptyChunks, born |-> {}, survive |-> {},
           generation |-> 0, running |-> FALSE]

\* The engine as computeNextGen or clear found it.
Snapshot ==
    [valid |-> TRUE, grid |-> grid, born |-> bornRules, survive |-> surviveRules,
     generation |-> generation, running |-> isRunning]

\* The rule recorded for an operation that takes none.
NoRule == [b |-> {}, s |-> {}]

Op(name, x, y, state) ==
    [op |-> name, x |-> x, y |-> y, state |-> state, rule |-> NoRule]

\* An operation other than an advance ends the current run of advances.
EndRun ==
    /\ ret' = 0
    /\ prev' = NoPrev
    /\ runBase' = generation'
    /\ runLen' = 0
    /\ runStart' = grid'

\* An operation other than an advance, with its arguments.
Note(name, x, y, state) ==
    /\ lastOp' = Op(name, x, y, state)
    /\ EndRun

rulesV == <<bornRules, surviveRules, ruleChanges>>
loopV == <<isRunning, animationId, frames>>
mouseV == <<isDragging, isDrawing, drawState>>
countV == <<generation, population>>
stepV == <<pc, nextGrid, todo, newPop>>

(***************************************************************************)
(* GameOfLife: construction.                                               *)
(***************************************************************************)
\* constructor and init(): the fields as constructed, then randomize(),
\* which makes one of the sets of seeds alive.
InitWith(seeds) ==
    /\ \E live \in seeds : grid = setCells(emptyChunks, live)
    /\ bornRules = {3}
    /\ surviveRules = {2, 3}
    /\ isRunning = FALSE
    /\ animationId = 0
    /\ frames = {}
    /\ generation = 0
    /\ population = 0
    /\ isDragging = FALSE
    /\ isDrawing = FALSE
    /\ drawState = 1
    /\ pc = "idle"
    /\ nextGrid = emptyChunks
    /\ todo = {}
    /\ newPop = 0
    /\ lastOp = Op("init", 0, 0, 0)
    /\ ret = 0
    /\ prev = NoPrev
    /\ runBase = 0
    /\ runLen = 0
    /\ runStart = grid
    /\ stopped = TRUE
    /\ edits = 0
    /\ ruleChanges = 0

Init == InitWith(Seeds)

(***************************************************************************)
(* The engine's operations, each run to completion.                        *)
(***************************************************************************)
\* The body of computeNextGen(), called while generation is below a bound.
AdvanceUpTo(bound) ==
    /\ generation < bound
    /\ LET r == computeNextGen(grid, bornRules, surviveRules)
           c == commit(r.chunks, r.pop, generation)
       IN  /\ grid' = c.grid
           /\ generation' = c.generation
           /\ population' = c.population
           /\ prev' = Snapshot
    /\ lastOp' = Op("advance", 0, 0, 0)
    /\ ret' = 0
    /\ runLen' = runLen + 1
    /\ UNCHANGED <<runBase, runStart>>

\* The body of computeNextGen().
Advance == AdvanceUpTo(MaxGen)

\* computeNextGen(), called on the engine.
ComputeNextGen ==
    /\ pc = "idle"
    /\ Advance
    /\ UNCHANGED <<rulesV, loopV, stopped, mouseV, stepV, edits>>

\* Mutant of ApplyRule: the sets are not cleared before the rule's numbers
\* are added.
ApplyRuleMerging(rules) ==
    \E rule \in rules :
        /\ ruleChanges < MaxRuleChanges
        /\ ruleChanges' = ruleChanges + 1
        /\ bornRules' = bornRules \cup rule.b
        /\ surviveRules' = surviveRules \cup rule.s
        /\ UNCHANGED <<grid, countV, loopV, stopped, mouseV, stepV, edits>>
        /\ lastOp' = [Op("applyRule", 0, 0, 0) EXCEPT !.rule = rule]
        /\ EndRun

\* applyRule(rule)
ApplyRule(rules) ==
    \E rule \in rules :
        /\ ruleChanges < MaxRuleChanges
        /\ ruleChanges' = ruleChanges + 1
        /\ bornRules' = rule.b
        /\ surviveRules' = rule.s
        /\ UNCHANGED <<grid, countV, loopV, stopped, mouseV, stepV, edits>>
        /\ lastOp' = [Op("applyRule", 0, 0, 0) EXCEPT !.rule = rule]
        /\ EndRun

\* The change handler of a born checkbox (values 1..8).
ToggleBorn ==
    \E val \in 1 .. 8, checked \in BOOLEAN :
        /\ ruleChanges < MaxRuleChanges
        /\ ruleChanges' = ruleChanges + 1
        /\ bornRules' = (IF checked THEN bornRules \cup {val} ELSE bornRules \ {val})
        /\ UNCHANGED <<surviveRules, grid, countV, loopV, stopped, mouseV, stepV, edits>>
        /\ Note("rule", 0, 0, 0)

\* The change handler of a survive checkbox (values 0..8).
ToggleSurvive ==
    \E val \in 0 .. 8, checked \in BOOLEAN :
        /\ ruleChanges < MaxRuleChanges
        /\ ruleChanges' = ruleChanges + 1
        /\ surviveRules' =
               (IF checked THEN surviveRules \cup {val} ELSE surviveRules \ {val})
        /\ UNCHANGED <<bornRules, grid, countV, loopV, stopped, mouseV, stepV, edits>>
        /\ Note("rule", 0, 0, 0)

\* cancelAnimationFrame(id): the pending callbacks afterwards.
cancelAnimationFrame(fr, id) == fr \ {id}

\* Mutant of ClearThen: clear() does not call pause().
ClearThenRunning(name, live) ==
    /\ grid' = setCells(clearChunks(grid), live)
    /\ generation' = 0
    /\ population' = 0
    /\ lastOp' = Op(name, 0, 0, 0)
    /\ ret' = 0
    /\ prev' = Snapshot
    /\ runBase' = 0
    /\ runLen' = 0
    /\ runStart' = grid'
    /\ stopped' = TRUE
    /\ UNCHANGED <<loopV, rulesV, mouseV, stepV, edits>>

\* clear(), and the cells randomize() then writes (none for clear() alone).
ClearThen(name, live) ==
    /\ grid' = setCells(clearChunks(grid), live)
    /\ generation' = 0
    /\ population' = 0
    /\ isRunning' = FALSE
    /\ frames' = (IF isRunning THEN cancelAnimationFrame(frames, animationId)
                  ELSE frames)
    /\ lastOp' = Op(name, 0, 0, 0)
    /\ ret' = 0
    /\ prev' = Snapshot
    /\ runBase' = 0
    /\ runLen' = 0
    /\ runStart' = grid'
    /\ stopped' = TRUE
    /\ UNCHANGED <<animationId, rulesV, mouseV, stepV, edits>>

\* clear()
Clear == pc = "idle" /\ ClearThen("clear", {})

\* randomize(): clear(), then setCell(x, y, 1) wherever Math.random() <
\* density, which makes one of the sets of seeds alive.
Randomize(seeds) ==
    \E live \in seeds : pc = "idle" /\ ClearThen("randomize", live)

(***************************************************************************)
(* The store, called directly.                                             *)
(***************************************************************************)
\* this.grid.setCell(x, y, state)
SetCell ==
    \E c \in GridCoords, state \in States :
        /\ pc = "idle"
        /\ edits < MaxSets
        /\ edits' = edits + 1
        /\ grid' = setCell(grid, c[1], c[2], state)
        /\ UNCHANGED <<countV, rulesV, loopV, stopped, mouseV, stepV>>
        /\ Note("set", c[1], c[2], state)

\* this.grid.getCell(x, y)
GetCell ==
    \E c \in GridCoords :
        /\ pc = "idle"
        /\ grid' = getCellChunks(grid, c[1], c[2])
        /\ lastOp' = Op("get", c[1], c[2], 0)
        /\ ret' = getCell(grid, c[1], c[2])
        /\ prev' = NoPrev
        /\ runBase' = generation
        /\ runLen' = 0
        /\ runStart' = grid'
        /\ UNCHANGED <<countV, rulesV, loopV, stopped, mouseV, stepV, edits>>

\* this.grid.clear()
GridClear ==
    /\ pc = "idle"
    /\ grid' = clearChunks(grid)
    /\ lastOp' = Op("clear", 0, 0, 0)
    /\ ret' = 0
    /\ prev' = Snapshot
    /\ runBase' = generation
    /\ runLen' = 0
    /\ runStart' = grid'
    /\ UNCHANGED <<countV, rulesV, loopV, stopped, mouseV, stepV, edits>>

(***************************************************************************)
(* computeNextGen, one iteration of its second loop at a time.             *)
(***************************************************************************)
\* The start of computeNextGen up to "let newPop = 0".
BeginCompute ==
    /\ pc = "idle"
    /\ generation < MaxGen
    /\ pc' = "chunks"
    /\ nextGrid' = emptyChunks
    /\ todo' = chunksToCheck(grid)
    /\ newPop' = 0
    /\ lastOp' = Op("begin", 0, 0, 0)
    /\ ret' = 0
    /\ prev' = Snapshot
    /\ UNCHANGED <<grid, countV, rulesV, loopV, stopped, mouseV, edits, runBase, runLen,
                   runStart>>

\* Mutant of ProcessChunk: nextGrid is the engine's grid itself, the live
\* cells are written in place.
ProcessChunkInPlace ==
    \E key \in todo :
        /\ pc = "chunks"
        /\ LET r == processChunk(grid, bornRules, surviveRules, key, grid, newPop)
           IN  /\ nextGrid' = r.chunks
               /\ grid' = r.chunks
               /\ newPop' = r.pop
        /\ todo' = todo \ {key}
        /\ lastOp' = Op("chunk", 0, 0, 0)
        /\ UNCHANGED <<pc, ret, prev, countV, rulesV, loopV, stopped, mouseV, edits,
                       runBase, runLen, runStart>>

\* One iteration of "for (const key of chunksToCheck)". The Set hands out
\* its keys in the order of insertion, which the chunk map of the model does
\* not record: any key not yet processed may come next.
ProcessChunk ==
    \E key \in todo :
        /\ pc = "chunks"
        /\ LET r == processChunk(grid, bornRules, surviveRules, key, nextGrid, newPop)
           IN  /\ nextGrid' = r.chunks
               /\ newPop' = r.pop
        /\ grid' = afterReads(grid, readsOfChunk(key))
        /\ todo' = todo \ {key}
        /\ lastOp' = Op("chunk", 0, 0, 0)
        /\ UNCHANGED <<pc, ret, prev, countV, rulesV, loopV, stopped, mouseV, edits,
                       runBase, runLen, runStart>>

\* The last three statements of computeNextGen.
CommitCompute ==
    /\ pc = "chunks"
    /\ todo = {}
    /\ LET c == commit(nextGrid, newPop, generation)
       IN  /\ grid' = c.grid
           /\ generation' = c.generation
           /\ population' = c.population
    /\ pc' = "idle"
    /\ nextGrid' = emptyChunks
    /\ todo' = {}
    /\ newPop' = 0
    /\ lastOp' = Op("advance", 0, 0, 0)
    /\ runLen' = runLen + 1
    /\ UNCHANGED <<ret, prev, rulesV, loopV, stopped, mouseV, edits, runBase, runStart>>

(***************************************************************************)
(* GameOfLife: the timing loop and the input handlers.                     *)
(***************************************************************************)
\* The id requestAnimationFrame returns: one that names no pending callback
\* and differs from the id the engine holds.
freshId(fr, aid) ==
    CHOOSE i \in 1 .. 3 :
        /\ i \notin fr \cup {aid}
        /\ \A j \in 1 .. (i - 1) : j \in fr \cup {aid}

\* loop(): fr is the set of pending callbacks when it is entered, tick is
\* the outcome of "elapsed > fpsInterval".
Loop(fr, tick) ==
    IF ~isRunning
    THEN /\ frames' = fr
         /\ UNCHANGED <<grid, countV, animationId>>
         /\ Note("loop", 0, 0, 0)
    ELSE /\ IF tick
            THEN Advance
            ELSE /\ UNCHANGED <<grid, countV>>
                 /\ Note("loop", 0, 0, 0)
         /\ animationId' = freshId(fr, animationId)
         /\ frames' = fr \cup {freshId(fr, animationId)}

\* An animation-frame callback runs: () => this.loop().
Frame ==
    \E id \in frames, tick \in BOOLEAN :
        /\ pc = "idle"
        /\ Loop(frames \ {id}, tick)
        /\ UNCHANGED <<isRunning, stopped, rulesV, mouseV, stepV, edits>>

\* Mutant of Start: "if (this.isRunning) return" is left out.
StartUnguarded ==
    /\ pc = "idle"
    /\ isRunning' = TRUE
    /\ animationId' = freshId(frames, animationId)
    /\ frames' = frames \cup {freshId(frames, animationId)}
    /\ stopped' = FALSE
    /\ UNCHANGED <<grid, countV, rulesV, mouseV, stepV, edits>>
    /\ Note("start", 0, 0, 0)

\* Mutant of Start: start() begins a new run and resets the counters.
StartResetting ==
    /\ pc = "idle"
    /\ IF isRunning
       THEN /\ UNCHANGED <<isRunning, animationId, frames>>
       ELSE /\ isRunning' = TRUE
            /\ animationId' = freshId(frames, animationId)
            /\ frames' = frames \cup {freshId(frames, animationId)}
    /\ generation' = 0
    /\ population' = 0
    /\ stopped' = FALSE
    /\ UNCHANGED <<grid, rulesV, mouseV, stepV, edits>>
    /\ Note("start", 0, 0, 0)

\* start(). Its call of loop() finds elapsed = 0 and does not tick.
Start ==
    /\ pc = "idle"
    /\ IF isRunning
       THEN /\ UNCHANGED <<isRunning, animationId, frames>>
       ELSE /\ isRunning' = TRUE
            /\ animationId' = freshId(frames, animationId)
            /\ frames' = frames \cup {freshId(frames, animationId)}
    /\ stopped' = FALSE
    /\ UNCHANGED <<grid, countV, rulesV, mouseV, stepV, edits>>
    /\ Note("start", 0, 0, 0)

\* Mutant of Pause: pause() switches the buttons and leaves the loop alone.
PauseButtonsOnly ==
    /\ pc = "idle"
    /\ stopped' = TRUE
    /\ UNCHANGED <<grid, countV, loopV, rulesV, mouseV, stepV, edits>>
    /\ Note("pause", 0, 0, 0)

\* pause()
Pause ==
    /\ pc = "idle"
    /\ isRunning' = FALSE
    /\ frames' = cancelAnimationFrame(frames, animationId)
    /\ stopped' = TRUE
    /\ UNCHANGED <<grid, countV, animationId, rulesV, mouseV, stepV, edits>>
    /\ Note("pause", 0, 0, 0)

\* handleMouseDown(e): c is screenToGrid of the pointer.
HandleMouseDown ==
    \E button \in Buttons, c \in PointerCells :
        /\ pc = "idle"
        /\ IF button = 1 \/ button = 2
           THEN /\ isDragging' = TRUE
                /\ UNCHANGED <<isDrawing, drawState, grid, edits>>
           ELSE /\ edits < MaxEdits
                /\ edits' = edits + 1
                /\ isDrawing' = TRUE
                /\ drawState' = (IF getCell(grid, c[1], c[2]) # 0 THEN 0 ELSE 1)
                /\ grid' = setCell(grid, c[1], c[2], drawState')
                /\ UNCHANGED isDragging
        /\ UNCHANGED <<countV, rulesV, loopV, stopped, stepV>>
        /\ Note("edit", 0, 0, 0)

\* handleMouseMove(e)
HandleMouseMove ==
    \E c \in PointerCells :
        /\ pc = "idle"
        /\ IF isDragging
           THEN UNCHANGED <<grid, edits>>
           ELSE IF isDrawing /\ getCell(grid, c[1], c[2]) # drawState
                THEN /\ edits < MaxEdits
                     /\ edits' = edits + 1
                     /\ grid' = setCell(grid, c[1], c[2], drawState)
                ELSE UNCHANGED <<grid, edits>>
        /\ UNCHANGED <<countV, rulesV, loopV, stopped, mouseV, stepV>>
        /\ Note("edit", 0, 0, 0)

\* handleMouseUp()
HandleMouseUp ==
    /\ pc = "idle"
    /\ isDragging' = FALSE
    /\ isDrawing' = FALSE
    /\ UNCHANGED <<drawState, grid, edits, countV, rulesV, loopV, stopped, stepV>>
    /\ Note("mouseUp", 0, 0, 0)

\* The cells loadPattern writes when the screen centre is the cell (x, y).
patternCells(pattern, x, y) ==
    LET startX == x - (Len(pattern[1]) \div 2)
        startY == y - (Len(pattern) \div 2)
    IN  { <<startX + p[2] - 1, startY + p[1] - 1>> :
            p \in { q \in (1 .. Len(pattern)) \X (1 .. 8) :
                       /\ q[2] <= Len(pattern[q[1]])
                       /\ pattern[q[1]][q[2]] # 0 } }

\* Mutant of LoadPattern: the cells written are added to population.
LoadPatternCounting ==
    \E pattern \in Patterns, c \in PointerCells :
        /\ pc = "idle"
        /\ edits < MaxEdits
        /\ edits' = edits + 1
        /\ grid' = setCells(grid, patternCells(pattern, c[1], c[2]))
        /\ population' = population + Cardinality(patternCells(pattern, c[1], c[2]))
        /\ UNCHANGED <<generation, rulesV, loopV, stopped, mouseV, stepV>>
        /\ Note("edit", 0, 0, 0)

\* loadPattern(pattern)
LoadPattern ==
    \E pattern \in Patterns, c \in PointerCells :
        /\ pc = "idle"
        /\ edits < MaxEdits
        /\ edits' = edits + 1
        /\ grid' = setCells(grid, patternCells(pattern, c[1], c[2]))
        /\ UNCHANGED <<countV, rulesV, loopV, stopped, mouseV, stepV>>
        /\ Note("edit", 0, 0, 0)

(***************************************************************************)
(* Specifications.                                                         *)
(***************************************************************************)
\* The engine: generations and rule changes, from every seed.
Next ==
    \/ ComputeNextGen
    \/ ApplyRule(RuleInputs)
    \/ ToggleBorn
    \/ ToggleSurvive

Spec == Init /\ [][Next]_vars

\* The store called directly, and generations of what it holds.
InitGrid == InitWith(NoSeeds)

NextGrid ==
    \/ SetCell
    \/ GridClear
    \/ ComputeNextGen

SpecGrid == InitGrid /\ [][NextGrid]_vars

\* computeNextGen step by step, and reads of the store.
InitSteps == InitWith(StepSeeds)

NextSteps ==
    \/ GetCell
    \/ BeginCompute
    \/ ProcessChunk
    \/ CommitCompute

SpecSteps == InitSteps /\ [][NextSteps]_vars

\* The handlers of the page.
InitUI == InitWith(FewSeeds)

NextUI ==
    \/ Frame
    \/ Start
    \/ Pause
    \/ Clear
    \/ Randomize(FewSeeds)
    \/ ApplyRule(FewRules)
    \/ HandleMouseDown
    \/ HandleMouseMove
    \/ HandleMouseUp
    \/ LoadPattern

SpecUI == InitUI /\ [][NextUI]_vars

\* The known patterns under the rule of construction, generation by
\* generation.
Tick ==
    /\ pc = "idle"
    /\ AdvanceUpTo(MaxTicks)
    /\ UNCHANGED <<rulesV, loopV, stopped, mouseV, stepV, edits>>

\* The store written with any state, then advanced.
InitValues == InitWith(ValueSeeds)
NextValues ==
    \/ SetCell
    \/ ComputeNextGen

SpecValues == InitValues /\ [][NextValues]_vars

InitLife == InitWith(LifeSeeds)
NextLife == Tick
SpecLife == InitLife /\ [][NextLife]_vars

(***************************************************************************)
(* Definitions the properties share.                                       *)
(***************************************************************************)
\* The rule of the automaton for a cell of a grid read through getCell:
\* alive is nonzero, n counts the live cells among the 8 Moore neighbours.
ruleState(chunks, born, survive, x, y) ==
    LET alive == getCell(chunks, x, y) # 0
        n == Cardinality({ d \in Offsets : getCell(chunks, x + d[1], y + d[2]) # 0 })
    IN  IF (alive /\ n \in survive) \/ (~alive /\ n \in born) THEN 1 ELSE 0

\* The number of nonzero cells a chunk map stores.
liveCount(chunks) ==
    Cardinality({ e \in (DOMAIN chunks) \X (0 .. (chunkSize * chunkSize - 1)) :
                    chunks[e[1]][e[2]] # 0 })

\* Every stored nonzero cell lies in the part of the plane the properties
\* look at.
livePlane(chunks) ==
    \A key \in DOMAIN chunks : \A c \in cellsOfChunk(key) :
        getCell(chunks, c[1], c[2]) # 0 => c \in Plane

justAdvanced == lastOp.op = "advance" /\ prev.valid

\* The coordinates of the nonzero cells a chunk map stores, from the keys
\* and the indexes of the arrays.
liveCells(chunks) ==
    { <<splitKey(e[1])[1] * chunkSize + (e[2] % chunkSize),
        splitKey(e[1])[2] * chunkSize + (e[2] \div chunkSize)>> :
        e \in { f \in (DOMAIN chunks) \X (0 .. (chunkSize * chunkSize - 1)) :
                   chunks[f[1]][f[2]] # 0 } }

\* The rule of construction.
conway == bornRules = {3} /\ surviveRules = {2, 3}

(***************************************************************************)
(* C1: after one advance(), for any grid of 0/1 cells and any born,        *)
(* survive within 0..8, every cell of the whole plane holds the state the  *)
(* rule gives it from the previous generation. Violated when 0 is in born: *)
(* the dead cells outside the evaluated chunks have no live neighbour and  *)
(* the rule makes them alive.                                              *)
(***************************************************************************)
C1_WholePlane_AnyRule ==
    justAdvanced =>
        \A c \in Plane :
            getCell(grid, c[1], c[2])
                = ruleState(prev.grid, prev.born, prev.survive, c[1], c[2])

\* C1 as amended: the same for born within 1..8 (0 not in born); no cell
\* outside the part of the plane looked at is alive.
C1_WholePlane ==
    (justAdvanced /\ 0 \notin prev.born) =>
        /\ \A c \in Plane :
               getCell(grid, c[1], c[2])
                   = ruleState(prev.grid, prev.born, prev.survive, c[1], c[2])
        /\ livePlane(prev.grid) => livePlane(grid)

\* Witness of C1: a generation with 0 not in born made a cell alive in a
\* chunk that the previous grid did not store.
C1_Witness ==
    /\ justAdvanced
    /\ 0 \notin prev.born
    /\ \E key \in (DOMAIN grid) \ (DOMAIN prev.grid) :
           \E c \in cellsOfChunk(key) : getCell(grid, c[1], c[2]) = 1

(***************************************************************************)
(* C2: every cell of every chunk that advance() evaluates holds, in the    *)
(* new grid, 1 if it was alive with its neighbour count in survive or dead *)
(* with its neighbour count in born, and 0 otherwise; neighbours in other  *)
(* or absent chunks count, absent chunks as dead.                          *)
(***************************************************************************)
C2_EvaluatedCells ==
    justAdvanced =>
        \A key \in chunksToCheck(prev.grid) : \A c \in cellsOfChunk(key) :
            getCell(grid, c[1], c[2])
                = ruleState(prev.grid, prev.born, prev.survive, c[1], c[2])

\* Witness of C2: in one generation a cell survived, a cell died and a cell
\* was born, and an evaluated chunk was absent from the source grid.
C2_Witness ==
    /\ justAdvanced
    /\ chunksToCheck(prev.grid) \ (DOMAIN prev.grid) # {}
    /\ \E c \in Plane : getCell(prev.grid, c[1], c[2]) = 1 /\ getCell(grid, c[1], c[2]) = 1
    /\ \E c \in Plane : getCell(prev.grid, c[1], c[2]) = 1 /\ getCell(grid, c[1], c[2]) = 0
    /\ \E c \in Plane : getCell(prev.grid, c[1], c[2]) = 0 /\ getCell(grid, c[1], c[2]) = 1

(***************************************************************************)
(* C3: getCell(x, y) directly after setCell(x, y, state) returns state,    *)
(* for negative, zero and positive x and y and every state (a byte).       *)
(***************************************************************************)
C3_SetThenGet ==
    lastOp.op = "set" => getCell(grid, lastOp.x, lastOp.y) = lastOp.state

\* Witness of C3: a state other than 0 and 1 written at negative x and y.
C3_Witness ==
    /\ lastOp.op = "set"
    /\ lastOp.x < 0
    /\ lastOp.y < 0
    /\ lastOp.state = 255

(***************************************************************************)
(* C4: setCell(x, y, state) stores the state in chunk (floor(x/chunkSize), *)
(* floor(y/chunkSize)) at the offset (x mod chunkSize, y mod chunkSize),   *)
(* floored and never negative, and getCell of every other coordinate is    *)
(* what it was before.                                                     *)
(***************************************************************************)
C4_SetFrame ==
    [][lastOp'.op = "set" =>
         LET x == lastOp'.x
             y == lastOp'.y
             key == getChunkKey(x \div chunkSize, y \div chunkSize)
         IN  /\ key \in DOMAIN grid'
             /\ grid'[key][(y % chunkSize) * chunkSize + (x % chunkSize)]
                    = lastOp'.state
             /\ \A c \in Plane \ {<<x, y>>} :
                    getCell(grid', c[1], c[2]) = getCell(grid, c[1], c[2])
      ]_vars

\* Witness of C4: a nonzero state written at (-1, 0) lies in chunk (-1, 0)
\* at the offset (chunkSize - 1, 0); (0, 0) and (chunkSize - 1, 0) read 0.
C4_Witness ==
    /\ lastOp = Op("set", 0 - 1, 0, 1)
    /\ getChunkKey(0 - 1, 0) \in DOMAIN grid
    /\ grid[getChunkKey(0 - 1, 0)][chunkSize - 1] = 1
    /\ getCell(grid, 0, 0) = 0
    /\ getCell(grid, chunkSize - 1, 0) = 0

(***************************************************************************)
(* C5: getCell is read-only. It returns 0 for a coordinate whose chunk is  *)
(* absent, and the stored chunks and cells are the same after it as before *)
(* it, also for the reads computeNextGen makes into absent chunks.         *)
(***************************************************************************)
C5_GetReadOnly ==
    [][/\ lastOp'.op = "get" =>
             /\ grid' = grid
             /\ getChunkKey(lastOp'.x \div chunkSize, lastOp'.y \div chunkSize)
                    \notin DOMAIN grid => ret' = 0
       /\ (pc = "chunks" /\ pc' = "chunks") =>
             (DOMAIN grid' = DOMAIN grid /\ grid' = grid)
      ]_vars

\* Witness of C5: getCell returned 0 for a coordinate whose chunk is absent
\* from a grid that stores other chunks.
C5_Witness ==
    /\ lastOp.op = "get"
    /\ ret = 0
    /\ DOMAIN grid # {}
    /\ getChunkKey(lastOp.x \div chunkSize, lastOp.y \div chunkSize) \notin DOMAIN grid

(***************************************************************************)
(* C6: after clear() the grid holds no chunk and getCell returns 0 for     *)
(* every coordinate, whatever setCell and advance did before.              *)
(***************************************************************************)
C6_ClearEmpties ==
    lastOp.op = "clear" =>
        /\ DOMAIN grid = {}
        /\ \A c \in Plane : getCell(grid, c[1], c[2]) = 0

\* Witness of C6: clear() ran on a grid that had been advanced and held a
\* nonzero cell.
C6_Witness ==
    /\ lastOp.op = "clear"
    /\ prev.valid
    /\ prev.generation > 0
    /\ \E c \in Plane : getCell(prev.grid, c[1], c[2]) # 0

(***************************************************************************)
(* C7: after N advance() calls from generation G, with nothing else in     *)
(* between, generation is G + N, whatever the grid and the rules.          *)
(***************************************************************************)
C7_GenerationCount == generation = runBase + runLen

\* Witness of C7: two advances in a row, the second on a grid without any
\* chunk.
C7_Witness ==
    /\ justAdvanced
    /\ runLen = 2
    /\ DOMAIN prev.grid = {}

(***************************************************************************)
(* C8: generation starts at 0 and never decreases over any sequence of     *)
(* operations (advance, cell edits, rule changes, clear, randomize, start, *)
(* pause). Violated by clear(), which sets it to 0.                        *)
(***************************************************************************)
C8_NeverDecreases == [][generation' >= generation]_vars

\* C8 as amended: generation never decreases, except that clear(), also as
\* the first step of randomize(), sets it to 0.
C8_DecreasesOnlyByClear ==
    [][\/ generation' >= generation
       \/ /\ lastOp'.op \in {"clear", "randomize"}
          /\ generation' = 0
      ]_vars

\* Witness of C8: clear() took generation from a positive value to 0.
C8_Witness ==
    /\ lastOp.op = "clear"
    /\ prev.valid
    /\ prev.generation > 0
    /\ generation = 0

(***************************************************************************)
(* C9: directly after advance(), population is the number of cells of the  *)
(* new grid that are alive, each counted once.                             *)
(***************************************************************************)
C9_PopulationExact == justAdvanced => population = liveCount(grid)

\* Witness of C9: a generation from several stored chunks, whose 9-chunk
\* neighbourhoods overlap, left live cells in several chunks.
C9_Witness ==
    /\ justAdvanced
    /\ Cardinality(DOMAIN prev.grid) >= 2
    /\ Cardinality(DOMAIN grid) >= 2
    /\ population >= 2

(***************************************************************************)
(* C10: while computeNextGen runs, the source grid is not mutated, and the *)
(* engine's grid, generation and population change only together, in the   *)
(* last step, when the destination grid is complete.                       *)
(***************************************************************************)
C10_AtomicSwap ==
    /\ [](pc = "chunks" =>
             /\ prev.valid
             /\ grid = prev.grid
             /\ generation = prev.generation)
    /\ [][/\ (pc = "chunks" \/ pc' = "chunks") /\ ~(pc = "chunks" /\ pc' = "idle") =>
                UNCHANGED <<grid, generation, population>>
          /\ (pc = "chunks" /\ pc' = "idle") =>
                /\ todo = {}
                /\ nextGrid
                       = computeNextGen(prev.grid, prev.born, prev.survive).chunks
                /\ grid' = nextGrid
                /\ generation' = generation + 1
                /\ population' = newPop
         ]_vars

\* Witness of C10: the destination grid holds part of the next generation,
\* chunks are still to be processed, and the engine's grid is the source.
C10_Witness ==
    /\ pc = "chunks"
    /\ todo # {}
    /\ nextGrid # emptyChunks
    /\ nextGrid # grid
    /\ grid = prev.grid

(***************************************************************************)
(* C11: a rule change replaces born and survive wholesale and changes      *)
(* nothing else: grid, generation and population are the same before and   *)
(* after it, and the next advance(), and every later one until another     *)
(* rule change, is computed with exactly the new sets.                     *)
(***************************************************************************)
C11_RuleChangeFrame ==
    [][/\ lastOp'.op = "applyRule" =>
             /\ bornRules' = lastOp'.rule.b
             /\ surviveRules' = lastOp'.rule.s
       /\ lastOp'.op \in {"applyRule", "rule"} =>
             UNCHANGED <<grid, generation, population>>
       /\ lastOp'.op \notin {"applyRule", "rule"} =>
             UNCHANGED <<bornRules, surviveRules>>
       /\ lastOp'.op = "advance" =>
             \A key \in chunksToCheck(grid) : \A c \in cellsOfChunk(key) :
                 getCell(grid', c[1], c[2])
                     = ruleState(grid, bornRules, surviveRules, c[1], c[2])
      ]_vars

\* Witness of C11: the second advance after applyRule made the grid another
\* than the rule in force before the change would have made it.
C11_Witness ==
    /\ justAdvanced
    /\ runLen = 2
    /\ ruleChanges = 1
    /\ bornRules # {3}
    /\ \E c \in Plane :
           getCell(grid, c[1], c[2]) # ruleState(prev.grid, {3}, {2, 3}, c[1], c[2])

(***************************************************************************)
(* C12: under the Conway rule the 5-cell glider, alone on the plane, at    *)
(* any position (across chunk borders, at negative coordinates), is after  *)
(* 4 advances the same shape moved by (+1, +1), and population is 5 after  *)
(* each of the 4 advances.                                                 *)
(***************************************************************************)
C12_Glider ==
    \A o \in LifeOrigins :
        (conway /\ liveCells(runStart) = glider(o[1], o[2])) =>
            /\ runLen \in 1 .. 4 => population = 5
            /\ runLen = 4 => liveCells(grid) = glider(o[1] + 1, o[2] + 1)

\* Witness of C12: 4 advances of a glider that began at negative coordinates
\* in four chunks and ends in other cells.
C12_Witness ==
    /\ justAdvanced
    /\ runLen = 4
    /\ \E o \in LifeOrigins :
           /\ o[1] < 0
           /\ o[2] < 0
           /\ liveCells(runStart) = glider(o[1], o[2])
    /\ Cardinality(DOMAIN runStart) = 4
    /\ liveCells(grid) # liveCells(runStart)

(***************************************************************************)
(* C13: under the Conway rule a horizontal segment of 3 live cells, alone  *)
(* on the plane, at any position, is the vertical segment through the same *)
(* centre after one advance and the horizontal segment again after two,    *)
(* with population 3 after every advance.                                  *)
(***************************************************************************)
C13_Blinker ==
    \A o \in LifeOrigins :
        (conway /\ liveCells(runStart) = row(o[1], o[2])) =>
            /\ runLen >= 1 => population = 3
            /\ runLen = 1 => liveCells(grid) = column(o[1], o[2])
            /\ runLen = 2 => liveCells(grid) = row(o[1], o[2])

\* Witness of C13: two advances of a segment that lay in two chunks; the
\* generation in between had it in a column.
C13_Witness ==
    /\ justAdvanced
    /\ runLen = 2
    /\ \E o \in LifeOrigins :
           /\ liveCells(runStart) = row(o[1], o[2])
           /\ liveCells(prev.grid) = column(o[1], o[2])
    /\ Cardinality(DOMAIN runStart) = 2

(***************************************************************************)
(* C14: under the Conway rule a 2 x 2 block of live cells, alone on the    *)
(* plane, at any position (in one, two or four chunks), is a fixed point:  *)
(* after any number of advances the live cells are the same and            *)
(* population is 4.                                                        *)
(***************************************************************************)
C14_Block ==
    \A o \in LifeOrigins :
        (conway /\ liveCells(runStart) = block(o[1], o[2])) =>
            (runLen >= 1 =>
                /\ liveCells(grid) = block(o[1], o[2])
                /\ population = 4)

\* Witness of C14: the block lay in four chunks and has been advanced as
\* often as the model goes.
C14_Witness ==
    /\ justAdvanced
    /\ runLen = MaxTicks
    /\ \E o \in LifeOrigins : liveCells(runStart) = block(o[1], o[2])
    /\ Cardinality(DOMAIN runStart) = 4

(***************************************************************************)
(* C15: advance() treats every cell whose stored state is nonzero as       *)
(* alive, whatever nonzero value setCell wrote: the cell counts as a live  *)
(* neighbour of its 8 neighbours and its own next state is decided by the  *)
(* survive set, not by the born set. Violated: a cell that holds a nonzero *)
(* value other than 1 is tested with "state === 1" and handed to the born  *)
(* set.                                                                    *)
(***************************************************************************)
C15_NonzeroAlive ==
    justAdvanced =>
        \A c \in Plane :
            getCell(prev.grid, c[1], c[2]) \notin {0, 1} =>
                \A d \in Block :
                    getCell(grid, c[1] + d[1], c[2] + d[2])
                        = ruleState(prev.grid, prev.born, prev.survive,
                                    c[1] + d[1], c[2] + d[2])

(***************************************************************************)
(* C16: the grid advance() installs does not depend on the order in which  *)
(* the stored chunks are enumerated and the chunks of the evaluation set   *)
(* are processed: from the same grid and rule, every order gives the same  *)
(* cell states, the same stored chunks and the same population.            *)
(***************************************************************************)
C16_OrderIndependent ==
    LET r == computeNextGen(prev.grid, prev.born, prev.survive)
    IN  /\ (pc = "chunks" /\ todo = {}) =>
               (nextGrid = r.chunks /\ newPop = r.pop)
        /\ (pc = "idle" /\ justAdvanced) =>
               (grid = r.chunks /\ population = r.pop)

\* Witness of C16: an advance has installed a grid of several chunks, which
\* the loop wrote in one of the orders of at least 12 keys.
C16_Witness ==
    /\ pc = "idle"
    /\ justAdvanced
    /\ Cardinality(chunksToCheck(prev.grid)) >= 12
    /\ Cardinality(DOMAIN grid) >= 2
    /\ population >= 4

(***************************************************************************)
(* C17: directly after advance() every chunk the engine's grid stores      *)
(* holds at least one live cell: chunks of the source grid that are all    *)
(* dead in the next generation, and evaluated neighbour chunks without a   *)
(* birth, are not stored.                                                  *)
(***************************************************************************)
C17_NoDeadChunk ==
    justAdvanced =>
        \A key \in DOMAIN grid :
            \E i \in 0 .. (chunkSize * chunkSize - 1) : grid[key][i] # 0

\* Witness of C17: an advance left live cells, and a chunk of the source
\* grid is not stored any more.
C17_Witness ==
    /\ justAdvanced
    /\ DOMAIN grid # {}
    /\ (DOMAIN prev.grid) \ (DOMAIN grid) # {}
    /\ chunksToCheck(prev.grid) \ (DOMAIN grid) # {}

(***************************************************************************)
(* C18: cell edits between ticks (mouse drawing, pattern loading) change   *)
(* only the grid: generation and population are the same before and after  *)
(* them. population is recomputed by advance() only (and set to 0 by the   *)
(* engine's clear), so it can differ from the number of live cells of the  *)
(* grid until the next advance().                                          *)
(***************************************************************************)
C18_EditsFrame ==
    [][/\ lastOp'.op \in {"edit", "mouseUp"} =>
             UNCHANGED <<generation, population, bornRules, surviveRules,
                         isRunning, animationId, frames>>
       /\ population' # population =>
             lastOp'.op \in {"advance", "clear", "randomize"}
       /\ (population' # population /\ lastOp'.op # "advance") =>
             population' = 0
      ]_vars

\* Witness of C18: after an advance, an edit has changed the number of live
\* cells of the grid, and population is another number.
C18_Witness ==
    /\ lastOp.op = "edit"
    /\ edits > 0
    /\ generation > 0
    /\ grid # emptyChunks
    /\ population # liveCount(grid)

(***************************************************************************)
(* C19: the engine's clear() leaves the grid without a chunk, generation   *)
(* 0, population 0 and isRunning false, whether or not the simulation was  *)
(* running when it was called.                                             *)
(***************************************************************************)
C19_ClearResets ==
    lastOp.op = "clear" =>
        /\ DOMAIN grid = {}
        /\ generation = 0
        /\ population = 0
        /\ isRunning = FALSE

\* Witness of C19: clear() was called while the simulation was running,
\* with generations counted and cells stored.
C19_Witness ==
    /\ lastOp.op = "clear"
    /\ prev.valid
    /\ prev.running
    /\ prev.generation > 0
    /\ prev.grid # emptyChunks

(***************************************************************************)
(* C20: over any interleaving of start(), pause(), clear(), randomize()    *)
(* and animation-frame callbacks, at most one callback is pending at any   *)
(* time, exactly one is pending whenever isRunning is true between         *)
(* callbacks, and start() while running schedules nothing.                 *)
(***************************************************************************)
C20_OneFramePending ==
    /\ [](/\ Cardinality(frames) <= 1
          /\ isRunning => Cardinality(frames) = 1)
    /\ [][(lastOp'.op = "start" /\ isRunning) => frames' = frames]_vars

\* Witness of C20: the simulation runs, a callback has advanced it and
\* requested the next one, which is the one callback pending.
C20_Witness ==
    /\ isRunning
    /\ justAdvanced
    /\ animationId >= 2
    /\ frames = {animationId}

(***************************************************************************)
(* C21: advance() is invoked by the timing loop only, while isRunning is   *)
(* true: after pause() or clear() has returned, no animation-frame         *)
(* callback changes the grid or generation until the next start().         *)
(***************************************************************************)
C21_AdvanceOnlyRunning ==
    [][/\ lastOp'.op = "advance" =>
             /\ isRunning
             /\ ~stopped
             /\ frames \ frames' # {}
       /\ (stopped /\ lastOp'.op \in {"advance", "loop"}) =>
             UNCHANGED <<grid, generation>>
      ]_vars

\* Witness of C21: pause() has returned after generations were computed;
\* the simulation does not run and no callback is pending.
C21_Witness ==
    /\ lastOp.op = "pause"
    /\ stopped
    /\ ~isRunning
    /\ generation > 0
    /\ grid # emptyChunks
    /\ frames = {}

====
